---- MODULE Spec2Model ----
(***************************************************************************)
(* A model of the CDS control plane of the LoRa mesh node (src/main.py):   *)
(* the CDS object, the single hardware timer `tim`, the radio receive      *)
(* callback with its packet handlers, the beacon thread and the text       *)
(* forwarding path.                                                        *)
(*                                                                         *)
(* Time is time.time() in seconds.  Smoothed RSSI values are kept in       *)
(* tenths of a dBm (the code's floats), wire magnitudes and two-hop view   *)
(* values in whole dBm (the code's ints).                                  *)
(*                                                                         *)
(* MACs are small integers.  Every MAC taken from a received frame is a    *)
(* bytes slice, while the node's own mac_addr is the str built by          *)
(* generate_mac_address.  A str never equals a bytes object, so where the  *)
(* code puts the own MAC into a set of table keys                          *)
(* (my_nbr_set.add(self.mac_addr)) it is an element that no key and no     *)
(* entry of a received view equals: SelfStr.  On the wire the same six     *)
(* characters are the bytes MAC SelfMac.                                   *)
(*                                                                         *)
(* The re-entry delay 30 + r * 10 is a float, and tim.init is given        *)
(* period = delay_s * 1000.  Whether Timer.init takes a float period       *)
(* depends on the firmware build: timer_takes_float is chosen in Init and  *)
(* never changes.  Where it is FALSE the call raises TypeError after the   *)
(* discovery flag and the beacon bounds were set, and the timer keeps its  *)
(* previous programme.                                                     *)
(*                                                                         *)
(* beacon_thread is the state of the thread running sending_beacons;       *)
(* nbr_sets_sent is the history of the neighbour-set frame types sent by   *)
(* the discovery exit.                                                     *)
(*                                                                         *)
(* send_beacon runs in its own thread and takes no lock.  Where the        *)
(* claims are about the engine, one turn of the thread is one step         *)
(* (SendBeacon).  SpecBeacon follows the turn line by line: the frame is   *)
(* built from is_dominator (packet) and handed to lora_send in a later     *)
(* step, and a callback may run in between.                                *)
(***************************************************************************)
EXTENDS Integers, Sequences, FiniteSets, TLC

\* ---------------------------------------------------------------- constants
BEACON == 1
NEIGHBOR_SET == 2
UPD_NEIGHBOR_SET == 3
TEXT_MESSAGE == 4

FirstDiscoveryS == 60
RediscoveryBaseS == 30
RediscoverySpanS == 10
LeaverPeriodS == 120
LeaverAgeS == 120
DominanceDelayS == 60
MsgCap == 100

\* ------------------------------------------------------------------- bounds
\* time.time() is followed up to MaxTime seconds
MaxTime == 240
\* most (nbr_mac, rssi) entries in a received neighbour-set payload
MaxEntries == 1
\* most text messages stored in one run
MaxTexts == 1

\* the clock advances by one of these steps, or to the timer's deadline
TickSteps == {30}
\* os.urandom(1) values that are drawn
UrandomBytes == {0, 255}

\* the node's own MAC, the MACs of the nodes whose frames are received, and
\* the MACs named in received payloads
SelfMac == 0
Nbrs == {1}
PayloadMacs == {SelfMac, 1, 2}
\* the own mac_addr as a str object that no bytes MAC equals
SelfStr == -1
\* lora.getRSSI() for a frame of sender m, in dBm: each link has one level
LinkRssi(m) == IF m % 2 = 1 THEN -60 ELSE -50
\* rssi magnitudes carried by received payloads
PayloadMags == {60}
\* dominance bytes carried by received beacons
DomBytes == {0, 1}
\* lengths of a trailing partial (mac, rssi) entry in a received payload
TailLens == {0, 3}

VARIABLES
    now,                    \* time.time()
    tim,                    \* the one machine.Timer(0)
    pending,                \* timer callbacks scheduled by the timer interrupt, not yet run
    is_dominator,
    nbrs_dict,
    dominant_nbrs_set,
    beacon_min_delay,
    beacon_max_delay,
    nbr_discovery_state,
    alarm_check_leavers,
    alarm_check_dominance,
    messages,
    message_ids,
    beacon_thread,          \* the sending_beacons thread: "running" or "dead"
    nbr_sets_sent,          \* types of the neighbour-set frames handed to lora.send so far
    timer_takes_float,      \* firmware property: tim.init accepts a float period
    packet,                 \* send_beacon's local: the frame built and not yet handed to lora_send, if any
    last                    \* what the last step did: handler, exception, frames sent

vars == <<now, tim, pending, is_dominator, nbrs_dict, dominant_nbrs_set,
          beacon_min_delay, beacon_max_delay, nbr_discovery_state,
          alarm_check_leavers, alarm_check_dominance, messages, message_ids, beacon_thread,
          nbr_sets_sent, timer_takes_float, packet, last>>

cdsVars == <<is_dominator, nbrs_dict, dominant_nbrs_set, beacon_min_delay,
             beacon_max_delay, nbr_discovery_state, alarm_check_leavers,
             alarm_check_dominance>>

\* ------------------------------------------------------------------ helpers
Min(a, b) == IF a < b THEN a ELSE b

RECURSIVE SumOver(_, _)
\* sum of f[x] over the x in S
SumOver(f, S) ==
    IF S = {} THEN 0
    ELSE LET x == CHOOSE y \in S : TRUE IN f[x] + SumOver(f, S \ {x})

\* all orders in which a dict with key set S can be iterated
Perms(S) ==
    {p \in [1..Cardinality(S) -> S] : \A i, j \in 1..Cardinality(S) : p[i] = p[j] => i = j}

None == "None"
\* the two-hop view of a neighbour whose NEIGHBOR_SET has not arrived (None);
\* a stored view always holds the sender's key, so it is never empty
NoView == [x \in {} |-> 0]

NbrRecord(t, view, dom, rssi) == [t |-> t, view |-> view, dom |-> dom, rssi |-> rssi]

Keys(d) == DOMAIN d

DictSet(d, k, v) == [x \in (DOMAIN d) \cup {k} |-> IF x = k THEN v ELSE d[x]]

DictDel(d, k) == [x \in (DOMAIN d) \ {k} |-> d[x]]

\* 0.7 * s + 0.3 * rssi, with s in tenths of a dBm and rssi in dBm
Ewma(s, rssi) == (7 * s + 3 * (10 * rssi)) \div 10

\* -int(rssi): the magnitude byte of a smoothed (negative) rssi
WireMag(s) == (0 - s) \div 10

\* frames on the air
BeaconFrame(mac, dom) == [type |-> BEACON, mac |-> mac, dom |-> dom, entries |-> {}, hop |-> 0]

NbrSetFrame(type, mac, entries) ==
    [type |-> type, mac |-> mac, dom |-> 0, entries |-> entries, hop |-> 0]

TextFrame(hop) == [type |-> TEXT_MESSAGE, mac |-> SelfMac, dom |-> 0, entries |-> {}, hop |-> hop]

Done(op, exc, tx, checks) == [op |-> op, exc |-> exc, tx |-> tx, checks |-> checks]

\* ---------------------------------------------------------------- the timer
TimOff == [mode |-> "off", cb |-> "none", period |-> 0, deadline |-> 0]

\* tim.init(period=p * 1000, mode=..., callback=...): replaces whatever was armed
TimInit(mode, cb, period) ==
    [mode |-> mode, cb |-> cb, period |-> period, deadline |-> now + period]

\* the timer after it expired: a one-shot is spent, a periodic one runs on
TimAfterFire ==
    IF tim.mode = "periodic" THEN [tim EXCEPT !.deadline = tim.deadline + tim.period]
    ELSE TimOff

\* ------------------------------------------------------- __check_dominance
\* The outcome of one run: dom is the value assigned to is_dominator (2 when
\* the run raised before assigning), exc the exception it raised.
Decided(dom) == [dom |-> dom, exc |-> "none"]
Raised(exc) == [dom |-> 2, exc |-> exc]

\* my_nbr_set had self.mac_addr been the bytes MAC that the node transmits
MyNbrSetBytesMac(nd) == Keys(nd) \cup {SelfMac}

\* my_nbr_set: set(self.nbrs_dict.keys()) with self.mac_addr (a str) added
MyNbrSet(nd) == Keys(nd) \cup {SelfStr}

\* my_rssi_sum, in tenths of a dBm
MyRssiSum(nd) == SumOver([m \in Keys(nd) |-> nd[m].rssi], Keys(nd))

\* sum(self.nbrs_dict[id][1].values()), in tenths of a dBm
ViewSum(view) == 10 * SumOver(view, DOMAIN view)

\* CompareWithThird with the incomparable case (lines 365-376) made non-dominant
CompareWithThirdDefer(nd, id3) ==
    LET mine == MyNbrSet(nd)
        third == DOMAIN nd[id3].view
    IN  IF third \subseteq mine /\ third # mine THEN Decided(1)
        ELSE IF mine \subseteq third /\ mine # third THEN Decided(0)
        ELSE IF mine = third
             THEN IF MyRssiSum(nd) > ViewSum(nd[id3].view) THEN Decided(1) ELSE Decided(0)
        ELSE Decided(0)

\* lines 309-376: this node against the third neighbour id3 that sees both
CompareWithThird(nd, id3) ==
    LET mine == MyNbrSet(nd)
        third == DOMAIN nd[id3].view
    IN  IF third \subseteq mine /\ third # mine THEN Decided(1)
        ELSE IF mine \subseteq third /\ mine # third THEN Decided(0)
        ELSE IF mine = third
             THEN IF MyRssiSum(nd) > ViewSum(nd[id3].view) THEN Decided(1) ELSE Decided(0)
        ELSE Decided(1)

RECURSIVE ThirdLoop(_, _, _, _, _)
\* lines 299-388: the loop over id3 = ord[k] for the disconnected pair id1, id2
ThirdLoop(nd, ord, id1, id2, k) ==
    IF k > Len(ord) THEN Decided(1)
    ELSE LET id3 == ord[k]
         IN  IF id3 = id1 \/ id3 = id2 THEN ThirdLoop(nd, ord, id1, id2, k + 1)
             ELSE IF nd[id3].view = NoView THEN Raised("AttributeError")
             ELSE IF id1 \notin DOMAIN nd[id3].view THEN ThirdLoop(nd, ord, id1, id2, k + 1)
             ELSE IF id2 \notin DOMAIN nd[id3].view THEN ThirdLoop(nd, ord, id1, id2, k + 1)
             ELSE CompareWithThird(nd, id3)
RECURSIVE RssiLoopNonStrict(_, _, _)
\* the rssi stage with ties lost: own_sum <= sum(V(m)) makes the node non-dominant
RssiLoopNonStrict(nd, ord, k) ==
    IF k > Len(ord) THEN Decided(1)
    ELSE IF MyRssiSum(nd) <= ViewSum(nd[ord[k]].view) THEN Decided(0)
    ELSE RssiLoopNonStrict(nd, ord, k + 1)

RECURSIVE RssiLoop(_, _, _)
\* lines 411-429: the complete graph with no dominator, resolved by rssi sums
RssiLoop(nd, ord, k) ==
    IF k > Len(ord) THEN Decided(1)
    ELSE IF MyRssiSum(nd) < ViewSum(nd[ord[k]].view) THEN Decided(0)
    ELSE RssiLoop(nd, ord, k + 1)

RECURSIVE CliqueLoop(_, _, _)
\* lines 393-403: some neighbour has edges outside the clique or is dominant
CliqueLoop(nd, ord, k) ==
    IF k > Len(ord) THEN RssiLoop(nd, ord, 1)
    ELSE LET info == nd[ord[k]]
         IN  IF info.view = NoView THEN Raised("TypeError")
             ELSE IF Cardinality(DOMAIN info.view) > Len(ord) + 1 \/ info.dom # 0
                  THEN Decided(0)
             ELSE CliqueLoop(nd, ord, k + 1)

RECURSIVE PairLoop(_, _, _, _)
\* lines 290-388: the loops over id1 = ord[i] and id2 = ord[j]
PairLoop(nd, ord, i, j) ==
    IF i > Len(ord) THEN CliqueLoop(nd, ord, 1)
    ELSE IF j > Len(ord) THEN PairLoop(nd, ord, i + 1, 1)
    ELSE IF i = j THEN PairLoop(nd, ord, i, j + 1)
    ELSE IF nd[ord[j]].view = NoView THEN Raised("AttributeError")
    ELSE IF ord[i] \notin DOMAIN nd[ord[j]].view
         THEN ThirdLoop(nd, ord, ord[i], ord[j], 1)
    ELSE PairLoop(nd, ord, i, j + 1)

\* SingleNbr with the two-node test loosened to "at least 2 entries"
SingleNbrAtLeastTwo(info) ==
    IF info.dom # 0 THEN Decided(0)
    ELSE IF info.view = NoView THEN Raised("TypeError")
    ELSE IF Cardinality(DOMAIN info.view) >= 2 THEN Decided(1)
    ELSE Decided(0)

\* lines 257-287: the node has a single neighbour
SingleNbr(info) ==
    IF info.dom # 0 THEN Decided(0)
    ELSE IF info.view = NoView THEN Raised("TypeError")
    ELSE IF Cardinality(DOMAIN info.view) = 2 THEN Decided(1)
    ELSE Decided(0)

\* __check_dominance on the table nd, iterated in the order ord
CheckDominance(nd, ord) ==
    IF Len(ord) = 1 THEN SingleNbr(nd[ord[1]])
    ELSE PairLoop(nd, ord, 1, 1)

\* the frames a run of __check_dominance sends: one beacon with the new flag
DominanceTx(r) == IF r.exc = "none" THEN <<BeaconFrame(SelfMac, r.dom)>> ELSE <<>>

\* is_dominator after a run
DominanceFlag(r, old) == IF r.exc = "none" THEN r.dom ELSE old
\* line 181: period = delay_s * 1000.  The constructor passes the int 60; the
\* re-entry of process_beacon passes 30 + r * 10, a float, and the period is
\* then a float.  A firmware whose Timer.init takes the period as an integer
\* argument raises TypeError for it (can't convert float to int), after the
\* flag and the bounds are set and with the timer left as it was.
TimInitRaises(first_time) == ~first_time /\ ~timer_takes_float

\* __enter_nbr_discovery_state that sets the flag and the timer but leaves the
\* beacon bounds as they were
EnterNbrDiscoveryStateKeepBounds(delay_s, first_time) ==
    /\ nbr_discovery_state' = TRUE
    /\ UNCHANGED <<beacon_min_delay, beacon_max_delay>>
    /\ tim' = IF TimInitRaises(first_time) THEN tim
              ELSE TimInit("one_shot", IF first_time THEN "exit_first" ELSE "exit_again",
                           delay_s)

\* ------------------------------------------------------------ construction
\* __enter_nbr_discovery_state(delay_s, first_time)
EnterNbrDiscoveryState(delay_s, first_time) ==
    /\ nbr_discovery_state' = TRUE
    /\ beacon_min_delay' = 5
    /\ beacon_max_delay' = 15
    /\ tim' = IF TimInitRaises(first_time) THEN tim
              ELSE TimInit("one_shot", IF first_time THEN "exit_first" ELSE "exit_again",
                           delay_s)

\* the state after cds = CDS(lora), at time.time() = 0
Init ==
    /\ now = 0
    /\ is_dominator = 0
    /\ nbrs_dict = [x \in {} |-> 0]
    /\ dominant_nbrs_set = {}
    /\ nbr_discovery_state = TRUE
    /\ beacon_min_delay = 5
    /\ beacon_max_delay = 15
    /\ tim = [mode |-> "one_shot", cb |-> "exit_first", period |-> FirstDiscoveryS,
              deadline |-> FirstDiscoveryS]
    /\ pending = <<>>
    /\ alarm_check_leavers = None
    /\ alarm_check_dominance = None
    /\ messages = <<>>
    /\ message_ids = <<>>
    /\ beacon_thread = "running"
    /\ nbr_sets_sent = <<>>
    /\ timer_takes_float \in BOOLEAN
    /\ packet = <<>>
    /\ last = Done("init", "none", <<>>, 0)

\* ------------------------------------------------------------ process_beacon
\* delay_s = 30 + r * 10 with r = urandom byte / 255
RediscoveryDelay(byte) == RediscoveryBaseS + (byte * RediscoverySpanS) \div 255

\* process_beacon(recv_pkg) for a beacon [BEACON, mac, dom]
ProcessBeacon(mac, dom) ==
    LET known == mac \in Keys(nbrs_dict)
        rssi == LinkRssi(mac)
    IN  /\ dominant_nbrs_set' = IF dom # 0 THEN dominant_nbrs_set \cup {mac}
                                ELSE dominant_nbrs_set \ {mac}
        /\ nbrs_dict' =
               IF known
               THEN [nbrs_dict EXCEPT ![mac] =
                        NbrRecord(now, @.view, dom, Ewma(@.rssi, rssi))]
               ELSE DictSet(nbrs_dict, mac, NbrRecord(now, NoView, dom, 10 * rssi))
        /\ IF ~known /\ ~nbr_discovery_state
           THEN \E byte \in UrandomBytes :
                    EnterNbrDiscoveryState(RediscoveryDelay(byte), FALSE)
           ELSE UNCHANGED <<nbr_discovery_state, beacon_min_delay, beacon_max_delay, tim>>
        /\ last' = Done("process_beacon",
                        IF ~known /\ ~nbr_discovery_state /\ TimInitRaises(FALSE)
                        THEN "TypeError" ELSE "none", <<>>, 0)
        /\ UNCHANGED <<now, pending, is_dominator, alarm_check_leavers,
                       alarm_check_dominance, messages, message_ids, beacon_thread, nbr_sets_sent, timer_takes_float, packet>>

\* ------------------------------------------------------ process_neighbor_set
\* the payloads of received neighbour-set frames: (mac, magnitude) entries
PayloadSeqs ==
    UNION {[1..n -> PayloadMacs \X PayloadMags] : n \in 0..MaxEntries}

RECURSIVE BuildView(_, _, _)
\* lines 494-497: two_hop_neighbors after the entries from index k on are stored
BuildView(view, entries, k) ==
    IF k > Len(entries) THEN view
    ELSE BuildView(DictSet(view, entries[k][1], 0 - entries[k][2]), entries, k + 1)

\* two_hop_neighbors for a frame of sender mac
TwoHopNeighbors(mac, entries) == BuildView([x \in {mac} |-> 0], entries, 1)

\* lines 505-507: some neighbour's two-hop view is still None
SomeViewMissing(nd) == \E m \in Keys(nd) : nd[m].view = NoView

\* what tim.init(...) returns and the code stores as the alarm handle
TimInitReturn == None
\* a handler that runs the dominance computation for either packet type
RunsCheckForAnyType(type) == type \in {NEIGHBOR_SET, UPD_NEIGHBOR_SET}

\* line 509: the packet type for which the computation runs inside the handler
RunsCheckInHandler(type) == type = NEIGHBOR_SET

\* process_neighbor_set(recv_pkg) for a frame [type, mac, entries..., tail bytes]
ProcessNeighborSet(type, mac, entries, tail) ==
    LET nd == [nbrs_dict EXCEPT ![mac].view = TwoHopNeighbors(mac, entries)]
    IN  /\ UNCHANGED <<now, pending, dominant_nbrs_set, beacon_min_delay,
                       beacon_max_delay, nbr_discovery_state, alarm_check_leavers,
                       messages, message_ids, beacon_thread, nbr_sets_sent, timer_takes_float, packet>>
        /\ IF tail # 0
           THEN \* recv_pkg[i+6] is past the end of the frame
                /\ last' = Done("process_neighbor_set", "IndexError", <<>>, 0)
                /\ UNCHANGED <<nbrs_dict, is_dominator, tim, alarm_check_dominance>>
           ELSE IF mac \notin Keys(nbrs_dict)
           THEN \* self.nbrs_dict[first_hop_neighbor_id] does not exist
                /\ last' = Done("process_neighbor_set", "KeyError", <<>>, 0)
                /\ UNCHANGED <<nbrs_dict, is_dominator, tim, alarm_check_dominance>>
           ELSE IF SomeViewMissing(nd)
           THEN /\ nbrs_dict' = nd
                /\ last' = Done("process_neighbor_set", "none", <<>>, 0)
                /\ UNCHANGED <<is_dominator, tim, alarm_check_dominance>>
           ELSE IF RunsCheckInHandler(type)
           THEN \E ord \in Perms(Keys(nd)) :
                    LET r == CheckDominance(nd, ord)
                    IN  /\ nbrs_dict' = nd
                        /\ is_dominator' = DominanceFlag(r, is_dominator)
                        /\ last' = Done("process_neighbor_set", r.exc, DominanceTx(r), 1)
                        /\ UNCHANGED <<tim, alarm_check_dominance>>
           ELSE /\ nbrs_dict' = nd
                /\ IF alarm_check_dominance = None
                   THEN /\ tim' = TimInit("one_shot", "check_dominance", DominanceDelayS)
                        /\ alarm_check_dominance' = TimInitReturn
                   ELSE UNCHANGED <<tim, alarm_check_dominance>>
                /\ last' = Done("process_neighbor_set", "none", <<>>, 0)
                /\ UNCHANGED is_dominator

\* --------------------------------------------------------- timer callbacks
\* the nbr-set payload __send_nbr_set builds: one (mac, magnitude) per neighbour
MyNbrEntries == {<<m, WireMag(nbrs_dict[m].rssi)>> : m \in Keys(nbrs_dict)}

\* an exit that broadcasts NEIGHBOR_SET whatever first_time is
NbrSetTypeAlwaysFull(cb) == NEIGHBOR_SET

\* lines 196-199: the packet type the exit broadcasts, by the first_time the
\* timer's lambda captured
NbrSetTypeOnExit(cb) == IF cb = "exit_first" THEN NEIGHBOR_SET ELSE UPD_NEIGHBOR_SET

\* __exit_nbr_discovery_state_alarm(first_time), the callback of the exit timer
ExitNbrDiscoveryStateAlarm ==
    /\ pending # <<>> /\ Head(pending) \in {"exit_first", "exit_again"}
    /\ pending' = Tail(pending)
    /\ nbr_discovery_state' = FALSE
    /\ IF alarm_check_leavers = None
       THEN /\ tim' = TimInit("periodic", "check_leavers", LeaverPeriodS)
            /\ alarm_check_leavers' = TimInitReturn
       ELSE UNCHANGED <<tim, alarm_check_leavers>>
    /\ beacon_min_delay' = 40
    /\ beacon_max_delay' = 60
    /\ last' = Done("exit_nbr_discovery_state_alarm", "none",
                    <<NbrSetFrame(NbrSetTypeOnExit(Head(pending)), SelfMac, MyNbrEntries)>>, 0)
    /\ nbr_sets_sent' = Append(nbr_sets_sent, NbrSetTypeOnExit(Head(pending)))
    /\ UNCHANGED <<now, is_dominator, nbrs_dict, dominant_nbrs_set,
                   alarm_check_dominance, messages, message_ids, beacon_thread,
                   timer_takes_float, packet>>

\* the neighbours whose last beacon is more than 120 s old
Leavers == {id \in Keys(nbrs_dict) : nbrs_dict[id].t + LeaverAgeS < now}

\* __check_leavers_alarm(timer), the callback of the periodic timer.  The first
\* stale neighbour met in the iteration is deleted; the call that follows,
\* self.__send_nbr_set(type=UPD_NEIGHBOR_SET), names a parameter the method
\* does not have and raises TypeError, which ends the callback.
CheckLeaversAlarm ==
    /\ pending # <<>> /\ Head(pending) = "check_leavers"
    /\ pending' = Tail(pending)
    /\ IF nbr_discovery_state \/ Leavers = {}
       THEN /\ last' = Done("check_leavers_alarm", "none", <<>>, 0)
            /\ UNCHANGED nbrs_dict
       ELSE \E id \in Leavers :
                /\ nbrs_dict' = DictDel(nbrs_dict, id)
                /\ last' = Done("check_leavers_alarm", "TypeError", <<>>, 0)
    /\ UNCHANGED <<now, tim, is_dominator, dominant_nbrs_set,
                   beacon_min_delay, beacon_max_delay, nbr_discovery_state,
                   alarm_check_leavers, alarm_check_dominance, messages, message_ids, beacon_thread, nbr_sets_sent, timer_takes_float, packet>>

\* __check_dominance_alarm(timer), the callback of the dominance one-shot
CheckDominanceAlarm ==
    /\ pending # <<>> /\ Head(pending) = "check_dominance"
    /\ pending' = Tail(pending)
    /\ alarm_check_dominance' = None
    /\ \E ord \in Perms(Keys(nbrs_dict)) :
           LET r == CheckDominance(nbrs_dict, ord)
           IN  /\ is_dominator' = DominanceFlag(r, is_dominator)
               /\ last' = Done("check_dominance_alarm", r.exc, DominanceTx(r), 1)
    /\ UNCHANGED <<now, tim, nbrs_dict, dominant_nbrs_set, beacon_min_delay,
                   beacon_max_delay, nbr_discovery_state, alarm_check_leavers,
                   messages, message_ids, beacon_thread, nbr_sets_sent, timer_takes_float, packet>>

\* ------------------------------------------------------------- beacon thread
\* bytes([self.is_dominator]) raises ValueError for a value that is not a byte
IsByte(x) == x \in 0..255

\* sending_beacons with the loop taken out: the thread returns after one beacon
SendingBeaconsOnce ==
    /\ beacon_thread = "running"
    /\ beacon_thread' = "dead"
    /\ last' = Done("send_beacon", "none", <<BeaconFrame(SelfMac, is_dominator)>>, 0)
    /\ UNCHANGED <<now, tim, pending, cdsVars, messages, message_ids, nbr_sets_sent, timer_takes_float, packet>>

\* send_beacon(), one turn of the sending_beacons loop, taken at the moment
\* the sleep ends: the frame carries is_dominator as it is then.  An exception
\* in send_beacon is caught nowhere and ends the thread.
SendBeacon ==
    /\ beacon_thread = "running"
    /\ IF IsByte(is_dominator)
       THEN /\ last' = Done("send_beacon", "none", <<BeaconFrame(SelfMac, is_dominator)>>, 0)
            /\ UNCHANGED beacon_thread
       ELSE /\ last' = Done("send_beacon", "ValueError", <<>>, 0)
            /\ beacon_thread' = "dead"
    /\ UNCHANGED <<now, tim, pending, cdsVars, messages, message_ids, nbr_sets_sent, timer_takes_float, packet>>

\* send_beacon() line by line.  After the sleep the frame is built from
\* is_dominator as it is then ...
BuildBeaconPacket ==
    /\ beacon_thread = "running"
    /\ packet = <<>>
    /\ IF IsByte(is_dominator)
       THEN /\ packet' = <<BeaconFrame(SelfMac, is_dominator)>>
            /\ last' = Done("build_beacon", "none", <<>>, 0)
            /\ UNCHANGED beacon_thread
       ELSE /\ last' = Done("build_beacon", "ValueError", <<>>, 0)
            /\ beacon_thread' = "dead"
            /\ UNCHANGED packet
    /\ UNCHANGED <<now, tim, pending, cdsVars, messages, message_ids, nbr_sets_sent,
                   timer_takes_float>>

\* ... and self.lora_send(packet) hands the frame built to the radio.  No lock
\* is held between the two lines, so a callback may have run since the build.
LoraSendBeacon ==
    /\ beacon_thread = "running"
    /\ packet # <<>>
    /\ last' = Done("send_beacon", "none", packet, 0)
    /\ packet' = <<>>
    /\ UNCHANGED <<now, tim, pending, cdsVars, messages, message_ids, beacon_thread,
                   nbr_sets_sent, timer_takes_float>>

\* ------------------------------------------------------ process_text_message
\* hop limits and texts of received text frames
TextHops == {0, 1}
TextMsgs == {"", "no arrow", "a>b"}
TextIds == {7}

\* line 581: ">" in msg
HasArrow(msg) == msg = "a>b"

\* lines 587-589 and 590-592: append, then drop the oldest entries over the cap
AppendCapped(list, x) ==
    LET l == Append(list, x)
    IN  IF Len(l) > MsgCap THEN SubSeq(l, Len(l) - MsgCap + 1, Len(l)) ELSE l

\* lines 597-598: the flag that gates forwarding
TextIsDominant == 1

\* process_text_message(recv_pkg) for a frame [TEXT_MESSAGE, id, hop, checksum, msg]
ProcessTextMessage(id, hop, cks_ok, msg) ==
    /\ Len(messages) < MaxTexts \/ msg = "" \/ ~HasArrow(msg) \/ ~cks_ok
    /\ IF ~cks_ok \/ (msg # "" /\ ~HasArrow(msg))
       THEN /\ last' = Done("process_text_message", "none", <<>>, 0)
            /\ UNCHANGED <<messages, message_ids>>
       ELSE /\ IF msg # ""
               THEN /\ messages' = AppendCapped(messages, msg)
                    /\ message_ids' = AppendCapped(message_ids, id)
               ELSE UNCHANGED <<messages, message_ids>>
            /\ last' = Done("process_text_message", "none",
                            IF TextIsDominant # 0 /\ hop > 0
                            THEN <<TextFrame(hop - 1)>> ELSE <<>>, 0)
    /\ UNCHANGED <<now, tim, pending, cdsVars, beacon_thread, nbr_sets_sent, timer_takes_float, packet>>

\* ---------------------------------------------------------------- the clock
\* The timer expires: its interrupt schedules the callback, which runs once the
\* callback in progress (a frame being handled) has returned.
TimerIsr ==
    /\ tim.mode # "off" /\ now >= tim.deadline
    /\ pending' = Append(pending, tim.cb)
    /\ tim' = TimAfterFire
    /\ last' = Done("timer_isr", "none", <<>>, 0)
    /\ UNCHANGED <<now, cdsVars, messages, message_ids, beacon_thread, nbr_sets_sent, timer_takes_float, packet>>

\* time passes, but not past the expiry of the armed timer nor while a
\* scheduled callback waits to run
Tick ==
    /\ now < MaxTime
    /\ pending = <<>>
    /\ tim.mode # "off" => now < tim.deadline
    /\ \E d \in TickSteps :
           now' = IF tim.mode # "off" THEN Min(now + d, tim.deadline) ELSE now + d
    /\ last' = Done("tick", "none", <<>>, 0)
    /\ UNCHANGED <<tim, pending, cdsVars, messages, message_ids, beacon_thread, nbr_sets_sent, timer_takes_float, packet>>

\* -------------------------------------------------------- receive_lora(event)
RecvBeacon == \E mac \in Nbrs, dom \in DomBytes : ProcessBeacon(mac, dom)

RecvNeighborSet ==
    \E type \in {NEIGHBOR_SET, UPD_NEIGHBOR_SET}, mac \in Nbrs,
       entries \in PayloadSeqs, tail \in TailLens :
        ProcessNeighborSet(type, mac, entries, tail)

RecvText ==
    \E id \in TextIds, hop \in TextHops, cks_ok \in BOOLEAN, msg \in TextMsgs :
        ProcessTextMessage(id, hop, cks_ok, msg)

Next ==
    \/ RecvBeacon
    \/ RecvNeighborSet
    \/ RecvText
    \/ TimerIsr
    \/ ExitNbrDiscoveryStateAlarm
    \/ CheckLeaversAlarm
    \/ CheckDominanceAlarm
    \/ SendBeacon
    \/ Tick

Spec == Init /\ [][Next]_vars

\* the same program with the beacon thread scheduled fairly: a thread that is
\* ready to send is not held back forever
SpecLive == Init /\ [][Next]_vars /\ WF_vars(SendBeacon)

\* the same program with the clock running and the timer served: time does
\* not stop while it can advance, an expired timer raises its interrupt and a
\* scheduled callback is run
SpecTimers ==
    /\ Init /\ [][Next]_vars
    /\ WF_vars(Tick)
    /\ WF_vars(TimerIsr)
    /\ WF_vars(ExitNbrDiscoveryStateAlarm)
    /\ WF_vars(CheckLeaversAlarm)
    /\ WF_vars(CheckDominanceAlarm)

\* ------------------------------------------------ the dominance check alone
\* The node with the dominance callback scheduled: beacons and UPD_NEIGHBOR_SET
\* frames of the neighbours in DomNbrs arrived at time 0, during the first
\* discovery, the last of them armed the one-shot, and it expired 60 s later.
DomNbrs == {1, 2, 3}
DomMacs == {SelfMac, 1, 2, 3, 4}
SmoothedVals == {-600, -500}
DomViewMag == 60

\* the two-hop view of neighbour m that lists the MACs in D
DomView(m, D) == [x \in D \cup {m} |-> IF x = m THEN 0 ELSE 0 - DomViewMag]

\* the table with keys K, beacon flags doms, listed MACs ds and smoothed rssi s
DomTable(K, doms, ds, s) == [m \in K |-> NbrRecord(0, DomView(m, ds[m]), doms[m], s)]

InitDom ==
    /\ now = DominanceDelayS
    /\ is_dominator = 1
    /\ \E K \in (SUBSET DomNbrs) \ {{}} :
           \E doms \in [K -> DomBytes], ds \in [K -> SUBSET DomMacs], s \in SmoothedVals :
               /\ \A m \in K : m \notin ds[m]
               /\ nbrs_dict = DomTable(K, doms, ds, s)
    /\ dominant_nbrs_set = {m \in Keys(nbrs_dict) : nbrs_dict[m].dom # 0}
    /\ nbr_discovery_state = TRUE
    /\ beacon_min_delay = 5
    /\ beacon_max_delay = 15
    /\ tim = TimOff
    /\ pending = <<"check_dominance">>
    /\ alarm_check_leavers = None
    /\ alarm_check_dominance = None
    /\ messages = <<>>
    /\ message_ids = <<>>
    /\ beacon_thread = "running"
    /\ nbr_sets_sent = <<>>
    /\ timer_takes_float \in BOOLEAN
    /\ packet = <<>>
    /\ last = Done("timer_isr", "none", <<>>, 0)

NextDom == CheckDominanceAlarm

SpecDom == InitDom /\ [][NextDom]_vars

\* ------------------------------------- the beacon thread beside the check
\* The node with the dominance callback scheduled, as in SpecDom, and the
\* beacon thread at the end of a sleep: the thread builds and sends its frame
\* while the callback runs when it is served.
NextBeacon ==
    \/ BuildBeaconPacket
    \/ LoraSendBeacon
    \/ CheckDominanceAlarm

SpecBeacon == InitDom /\ [][NextBeacon]_vars

\* -------------------------------------------------- the leaver sweep alone
\* The node at its first leaver sweep, 120 s after the first discovery exit:
\* the neighbours in the table sent their last beacon at one of BeaconTimes
\* and no neighbour set; the periodic timer has expired and its callback is
\* scheduled.  The node is back in discovery only if a beacon of a new
\* neighbour arrived after the exit and the re-entry left the timer alone.
BeaconTimes == {0, FirstDiscoveryS}

SweepTable(K, doms, ts) ==
    [m \in K |-> NbrRecord(ts[m], NoView, doms[m], 10 * LinkRssi(m))]

InitSweep ==
    /\ now = FirstDiscoveryS + LeaverPeriodS
    /\ timer_takes_float \in BOOLEAN
    /\ packet = <<>>
    /\ is_dominator \in {0, 1}
    /\ \E K \in (SUBSET DomNbrs) \ {{}} :
           \E doms \in [K -> DomBytes], ts \in [K -> BeaconTimes] :
               /\ nbrs_dict = SweepTable(K, doms, ts)
               /\ nbr_discovery_state \in BOOLEAN
               /\ nbr_discovery_state =>
                      (~timer_takes_float /\ \E m \in K : ts[m] = FirstDiscoveryS)
    /\ dominant_nbrs_set = {m \in Keys(nbrs_dict) : nbrs_dict[m].dom # 0}
    /\ beacon_min_delay = IF nbr_discovery_state THEN 5 ELSE 40
    /\ beacon_max_delay = IF nbr_discovery_state THEN 15 ELSE 60
    /\ tim = [mode |-> "periodic", cb |-> "check_leavers", period |-> LeaverPeriodS,
              deadline |-> now + LeaverPeriodS]
    /\ pending = <<"check_leavers">>
    /\ alarm_check_leavers = None
    /\ alarm_check_dominance = None
    /\ messages = <<>>
    /\ message_ids = <<>>
    /\ beacon_thread = "running"
    /\ nbr_sets_sent = <<NEIGHBOR_SET>>
    /\ last = Done("timer_isr", "none", <<>>, 0)

NextSweep == CheckLeaversAlarm

SpecSweep == InitSweep /\ [][NextSweep]_vars

\* ------------------------------------------------------------------ claims
\* the engine state a dropped frame must leave alone
engineVars == <<tim, pending, cdsVars>>

\* a dominance computation has just run from the timer callback and decided
DominanceRan == last.op = "check_dominance_alarm" /\ last.exc = "none"

\* C1: dominant_nbrs_set is exactly the set of MACs that have a record in
\* nbrs_dict with a true dominance flag, in every reachable state (so a
\* neighbour removed by the leaver sweep is not in it).
C1_DominantSetMirrorsFlags ==
    dominant_nbrs_set = {m \in Keys(nbrs_dict) : nbrs_dict[m].dom # 0}

\* C2: arming the dominance-check one-shot while one is live is a no-op: a
\* step that starts and ends with the one-shot armed leaves its deadline alone.
C2_ArmingWhileLiveIsNoOp ==
    [][(tim.cb = "check_dominance" /\ tim'.cb = "check_dominance")
          => tim'.deadline = tim.deadline]_vars

\* C3: the is_dominator value the dominance check produced is the value it
\* produces for every iteration order of the neighbour MACs.
C3_OrderInvariant ==
    DominanceRan =>
        \A ord \in Perms(Keys(nbrs_dict)) :
            CheckDominance(nbrs_dict, ord).dom = is_dominator

\* a check over three neighbours in which the order picks the branch: one
\* disconnected pair has a third neighbour that sees both, another has none
C3_Witness ==
    /\ DominanceRan
    /\ Cardinality(Keys(nbrs_dict)) = 3
    /\ \E a, b, c \in Keys(nbrs_dict) :
           /\ a # b /\ c \notin {a, b}
           /\ a \notin DOMAIN nbrs_dict[b].view
           /\ {a, b} \subseteq DOMAIN nbrs_dict[c].view
    /\ \E a, b \in Keys(nbrs_dict) :
           /\ a # b
           /\ a \notin DOMAIN nbrs_dict[b].view
           /\ \A c \in Keys(nbrs_dict) \ {a, b} : ~({a, b} \subseteq DOMAIN nbrs_dict[c].view)
    /\ is_dominator = 1

\* the node is the only bridge between some pair of its neighbours: a is not
\* in b's view and no third neighbour has both in its view
SoleBridge(nd) ==
    \E a, b \in Keys(nd) :
        /\ a # b
        /\ a \notin DOMAIN nd[b].view
        /\ ~ \E c \in Keys(nd) \ {a, b} : {a, b} \subseteq DOMAIN nd[c].view

\* C4: a dominance check run with at least two neighbours, the node being the
\* only bridge between two of them, ends with is_dominator = 1.
C4_SoleBridgeIsDominant ==
    (DominanceRan /\ Cardinality(Keys(nbrs_dict)) >= 2 /\ SoleBridge(nbrs_dict))
        => is_dominator = 1

\* a check that made the node dominant as the only bridge between two
\* neighbours although one of its neighbours is already dominant
C4_Witness ==
    /\ DominanceRan
    /\ Cardinality(Keys(nbrs_dict)) >= 2
    /\ SoleBridge(nbrs_dict)
    /\ \E m \in Keys(nbrs_dict) : nbrs_dict[m].dom # 0
    /\ is_dominator = 1

\* C5: a dominance check run with exactly one neighbour m ends non-dominant
\* if m's dominance flag is set, otherwise dominant if m's two-hop view has
\* exactly 2 entries, otherwise non-dominant.
C5_SingleNeighbourRule ==
    (DominanceRan /\ Cardinality(Keys(nbrs_dict)) = 1) =>
        \A m \in Keys(nbrs_dict) :
            is_dominator = IF nbrs_dict[m].dom # 0 THEN 0
                           ELSE IF Cardinality(DOMAIN nbrs_dict[m].view) = 2 THEN 1
                           ELSE 0

\* a check with one non-dominant neighbour that sees only itself and this
\* node has made the node dominant
C5_Witness ==
    /\ DominanceRan
    /\ Cardinality(Keys(nbrs_dict)) = 1
    /\ \E m \in Keys(nbrs_dict) :
           nbrs_dict[m].dom = 0 /\ DOMAIN nbrs_dict[m].view = {m, SelfMac}
    /\ is_dominator = 1

\* C6: while the neighbour table is empty no step changes is_dominator (a
\* dominance check run with zero neighbours leaves it as it was).
C6_EmptyTableKeepsFlag ==
    [][(Keys(nbrs_dict) = {} /\ Keys(nbrs_dict') = {}) => is_dominator' = is_dominator]_vars

\* C7: a received text message is re-broadcast only if the node's own
\* dominance flag is set at that moment.
C7_ForwardOnlyIfDominant ==
    (last.op = "process_text_message" /\ last.tx # <<>>) => is_dominator = 1

\* C8: every neighbour record whose two-hop view is present maps the
\* neighbour's own MAC to RSSI 0, whatever the received payload listed.
C8_OwnEntryIsZero ==
    \A m \in Keys(nbrs_dict) :
        nbrs_dict[m].view # NoView => nbrs_dict[m].view[m] = 0

\* C9: a neighbour-set frame whose sender has no record is dropped: the
\* handler completes without error and the engine state is unchanged.
C9_UnknownSenderDropped ==
    [][\A type \in {NEIGHBOR_SET, UPD_NEIGHBOR_SET}, mac \in Nbrs, entries \in PayloadSeqs :
          (mac \notin Keys(nbrs_dict) /\ ProcessNeighborSet(type, mac, entries, 0))
              => (last'.exc = "none" /\ last'.checks = 0 /\ UNCHANGED engineVars)]_vars

\* C10: a neighbour-set frame whose length after the 7-byte header is not a
\* multiple of 7 is rejected silently: the handler returns normally and the
\* engine state is unchanged.
C10_BadLengthRejected ==
    [][\A type \in {NEIGHBOR_SET, UPD_NEIGHBOR_SET}, mac \in Nbrs, entries \in PayloadSeqs,
          tail \in TailLens \ {0} :
          ProcessNeighborSet(type, mac, entries, tail)
              => (last'.exc = "none" /\ UNCHANGED engineVars)]_vars

\* C11: the beacon interval bounds are tied to the discovery flag: in
\* discovery they are (5, 15), out of discovery they are (40, 60).
C11_BoundsFollowDiscovery ==
    /\ nbr_discovery_state =>
           (beacon_min_delay = 5 /\ beacon_max_delay = 15)
    /\ ~nbr_discovery_state =>
           (beacon_min_delay = 40 /\ beacon_max_delay = 60)

\* a beacon of a new neighbour has put the node back into discovery, after the
\* first exit had set the slow bounds
C11_Witness ==
    /\ last.op = "process_beacon"
    /\ nbr_discovery_state
    /\ tim.cb = "exit_again"
    /\ beacon_min_delay = 5 /\ beacon_max_delay = 15

\* C12: under fair scheduling of the beacon thread the node transmits a
\* BEACON infinitely often, whatever frames arrive and whatever timers fire.
C12_BeaconsForever ==
    []<>(last.op = "send_beacon" /\ last.tx # <<>>)

\* a beacon sent out of discovery by a node that the dominance check made
\* dominant, after the time of the first leaver sweep
C12_Witness ==
    /\ last.op = "send_beacon"
    /\ last.tx = <<BeaconFrame(SelfMac, 1)>>
    /\ ~nbr_discovery_state
    /\ now >= FirstDiscoveryS + LeaverPeriodS

\* the handlers that read or write the engine state of the CDS object
EngineOps ==
    {"process_beacon", "process_neighbor_set", "exit_nbr_discovery_state_alarm",
     "check_leavers_alarm", "check_dominance_alarm", "send_beacon"}

\* the handlers that run any of their statements under `with lock:`
LockedOps == {"process_text_message"}

\* C13: every read and mutation of the shared engine state by the beacon
\* thread, the radio callback and the timer callbacks is made holding the lock.
C13_EngineAccessUnderLock ==
    last.op \in EngineOps => last.op \in LockedOps

\* C14: the first exit from discovery broadcasts NEIGHBOR_SET and every later
\* exit broadcasts UPD_NEIGHBOR_SET, so NEIGHBOR_SET goes out at most once and
\* no UPD_NEIGHBOR_SET goes out before it.
C14_FullSetOnceThenUpdates ==
    \A i \in 1..Len(nbr_sets_sent) :
        nbr_sets_sent[i] = IF i = 1 THEN NEIGHBOR_SET ELSE UPD_NEIGHBOR_SET

\* the node has left discovery a second time and broadcast its update
C14_Witness ==
    /\ last.op = "exit_nbr_discovery_state_alarm"
    /\ Len(nbr_sets_sent) >= 2
    /\ last.tx[1].type = UPD_NEIGHBOR_SET

\* C15: the dominance computation is never executed while some neighbour
\* record still has two_hop_view = None, whichever trigger started it.
C15_NoCheckWithMissingView ==
    last.checks = 1 => ~SomeViewMissing(nbrs_dict)

\* C16: process_beacon re-enters discovery, arming the exit timer with a
\* delay of 30 to 40 s, exactly when the sender had no record and the node was
\* not in discovery; any other beacon changes neither the discovery flag nor
\* the timer.
C16_ReentryOnNewNeighbour ==
    [][\A mac \in Nbrs, dom \in DomBytes :
          ProcessBeacon(mac, dom) =>
              IF mac \notin Keys(nbrs_dict) /\ ~nbr_discovery_state
              THEN /\ nbr_discovery_state'
                   /\ tim'.mode = "one_shot" /\ tim'.cb = "exit_again"
                   /\ tim'.deadline - now \in RediscoveryBaseS..(RediscoveryBaseS + RediscoverySpanS)
              ELSE /\ nbr_discovery_state' = nbr_discovery_state
                   /\ tim' = tim]_vars

\* C17: when process_neighbor_set stores a view and every neighbour then has
\* one, a NEIGHBOR_SET runs the dominance computation inside the handler and
\* arms no timer, while an UPD_NEIGHBOR_SET leaves is_dominator unchanged,
\* runs no computation and arms the 60 s one-shot if none is armed.
C17_DispatchByPacketType ==
    [][(/\ last'.op = "process_neighbor_set"
        /\ last'.exc = "none"
        /\ ~SomeViewMissing(nbrs_dict'))
       => \A type \in {NEIGHBOR_SET, UPD_NEIGHBOR_SET}, mac \in Nbrs \cap Keys(nbrs_dict),
             entries \in PayloadSeqs :
             (/\ nbrs_dict'[mac].view = TwoHopNeighbors(mac, entries)
              /\ ProcessNeighborSet(type, mac, entries, 0))
             => IF type = NEIGHBOR_SET
                THEN /\ last'.checks = 1
                     /\ tim' = tim
                     /\ alarm_check_dominance' = alarm_check_dominance
                ELSE /\ last'.checks = 0
                     /\ is_dominator' = is_dominator
                     /\ tim.cb # "check_dominance" =>
                            tim' = [mode |-> "one_shot", cb |-> "check_dominance",
                                    period |-> DominanceDelayS,
                                    deadline |-> now + DominanceDelayS]]_vars

\* out of discovery an UPD_NEIGHBOR_SET of a dominant node's neighbour has
\* armed the delayed check and left the flag alone
C17_Witness ==
    /\ last.op = "process_neighbor_set" /\ last.exc = "none" /\ last.checks = 0
    /\ ~SomeViewMissing(nbrs_dict) /\ Keys(nbrs_dict) # {}
    /\ ~nbr_discovery_state
    /\ is_dominator = 1
    /\ tim.cb = "check_dominance" /\ tim.deadline = now + DominanceDelayS

\* the value the code's loops give no third neighbour
NoThird == SelfStr

RECURSIVE ThirdFound(_, _, _, _, _)
\* the first id3 = ord[k'], k' >= k, that is neither id1 nor id2 and has both
\* in its view
ThirdFound(nd, ord, id1, id2, k) ==
    IF k > Len(ord) THEN NoThird
    ELSE IF ord[k] \notin {id1, id2} /\ {id1, id2} \subseteq DOMAIN nd[ord[k]].view
         THEN ord[k]
    ELSE ThirdFound(nd, ord, id1, id2, k + 1)

RECURSIVE ThirdOfFirstPair(_, _, _, _)
\* the third neighbour of the first pair id1 = ord[i], id2 = ord[j] met in the
\* iteration with id1 not in V(id2); NoThird if there is no such pair or no third
ThirdOfFirstPair(nd, ord, i, j) ==
    IF i > Len(ord) THEN NoThird
    ELSE IF j > Len(ord) THEN ThirdOfFirstPair(nd, ord, i + 1, 1)
    ELSE IF i # j /\ ord[i] \notin DOMAIN nd[ord[j]].view
         THEN ThirdFound(nd, ord, ord[i], ord[j], 1)
    ELSE ThirdOfFirstPair(nd, ord, i, j + 1)

\* the outcome by the comparison of S = keys(nbrs_dict) + own MAC with V(c)
ByComparison(nd, c) ==
    LET S == Keys(nd) \cup {SelfMac}
        V == DOMAIN nd[c].view
    IN  IF V \subseteq S /\ V # S THEN 1
        ELSE IF S \subseteq V /\ S # V THEN 0
        ELSE IF S = V THEN (IF MyRssiSum(nd) > ViewSum(nd[c].view) THEN 1 ELSE 0)
        ELSE 1

\* C18: when the dominance check (n >= 2) finds a pair a, b with a not in V(b)
\* and a third neighbour c whose view contains both, the result follows the
\* comparison of S = keys(nbrs_dict) + own MAC with V(c): proper superset
\* dominant, proper subset non-dominant, equal dominant iff the own rssi sum is
\* strictly greater, incomparable dominant.
C18_ThirdNeighbourComparison ==
    (DominanceRan /\ Cardinality(Keys(nbrs_dict)) >= 2) =>
        \A ord \in Perms(Keys(nbrs_dict)) :
            LET c == ThirdOfFirstPair(nbrs_dict, ord, 1, 1)
            IN  c # NoThird =>
                    CheckDominance(nbrs_dict, ord).dom = ByComparison(nbrs_dict, c)

\* every ordered pair of distinct neighbours is connected: a is in V(b)
AllPairsConnected(nd) ==
    \A a, b \in Keys(nd) : a # b => a \in DOMAIN nd[b].view

\* some neighbour has a neighbour outside the clique or is already dominant
SomeNbrOutranks(nd) ==
    \E m \in Keys(nd) :
        Cardinality(DOMAIN nd[m].view) > Cardinality(Keys(nd)) + 1 \/ nd[m].dom # 0

\* C19: when the dominance check (n >= 2) finds every ordered pair of distinct
\* neighbours connected, the node ends non-dominant if some neighbour m has
\* |V(m)| > n + 1 or is flagged dominant; otherwise it ends dominant iff its
\* rssi sum is not less than the sum of V(m)'s values for every neighbour m.
C19_CliqueRule ==
    (DominanceRan /\ Cardinality(Keys(nbrs_dict)) >= 2 /\ AllPairsConnected(nbrs_dict)) =>
        is_dominator =
            IF SomeNbrOutranks(nbrs_dict) THEN 0
            ELSE IF \A m \in Keys(nbrs_dict) :
                        ~(MyRssiSum(nbrs_dict) < ViewSum(nbrs_dict[m].view))
                 THEN 1
            ELSE 0

\* a clique of three neighbours with no dominant one, in which the rssi sums
\* (one of them a tie) made the node dominant
C19_Witness ==
    /\ DominanceRan
    /\ Cardinality(Keys(nbrs_dict)) = 3
    /\ AllPairsConnected(nbrs_dict)
    /\ ~SomeNbrOutranks(nbrs_dict)
    /\ \E m \in Keys(nbrs_dict) : MyRssiSum(nbrs_dict) = ViewSum(nbrs_dict[m].view)
    /\ is_dominator = 1

\* C20: a leaver-sweep fire removes a neighbour record if and only if the node
\* is not in discovery and the record's last beacon is more than 120 s old;
\* every other record is left unchanged, and a sweep that fires during
\* discovery changes no state and sends nothing.
C20_SweepRemovesExactlyStale ==
    [][last'.op = "check_leavers_alarm" =>
          /\ \A m \in Keys(nbrs_dict) :
                 /\ m \notin Keys(nbrs_dict') <=>
                        (~nbr_discovery_state /\ nbrs_dict[m].t + LeaverAgeS < now)
                 /\ m \in Keys(nbrs_dict') => nbrs_dict'[m] = nbrs_dict[m]
          /\ Keys(nbrs_dict') \subseteq Keys(nbrs_dict)
          /\ nbr_discovery_state => (UNCHANGED <<tim, cdsVars>> /\ last'.tx = <<>>)]_vars

\* C21: a leaver sweep that removes at least one neighbour broadcasts an
\* UPD_NEIGHBOR_SET and computes no dominance itself, arming the 60 s one-shot
\* dominance check exactly when the node is dominant; a sweep that removes
\* nobody broadcasts nothing and arms nothing.
C21_RemovalBroadcastsUpdate ==
    [][last'.op = "check_leavers_alarm" =>
          IF Keys(nbrs_dict') # Keys(nbrs_dict)
          THEN /\ \E k \in 1..Len(last'.tx) : last'.tx[k].type = UPD_NEIGHBOR_SET
               /\ last'.checks = 0
               /\ (is_dominator # 0) <=> (tim'.cb = "check_dominance" /\ tim' # tim)
          ELSE /\ last'.tx = <<>>
               /\ tim' = tim]_vars

\* C22: the three timers are independent, so once discovery has been exited
\* for the first time the 120 s periodic leaver sweep stays armed in every
\* later state, including after re-entering discovery and after a dominance
\* check is armed.
C22_LeaverSweepStaysArmed ==
    nbr_sets_sent # <<>> =>
        /\ tim.mode = "periodic"
        /\ tim.cb = "check_leavers"
        /\ tim.period = LeaverPeriodS

\* C23: discovery is bounded: with the timer served, every state in which
\* nbr_discovery_state is True is eventually followed by one in which it is
\* False, whatever BEACON, NEIGHBOR_SET and UPD_NEIGHBOR_SET frames arrive in
\* between.  Only discovery states whose longest window (60 s) ends within
\* the time followed are asked to end.
C23_DiscoveryEnds ==
    (nbr_discovery_state /\ now + FirstDiscoveryS <= MaxTime) ~> ~nbr_discovery_state

\* C24: every run of the dominance computation that reaches a decision
\* transmits exactly one BEACON frame whose dominance byte is the value of
\* is_dominator after the decision, and the BEACON handed to the radio by
\* send_beacon carries the value of is_dominator at the moment of sending.
C24_BeaconCarriesCurrentFlag ==
    /\ (last.checks = 1 /\ last.exc = "none") =>
           /\ Len(last.tx) = 1
           /\ last.tx[1].type = BEACON
           /\ last.tx[1].dom = is_dominator
    /\ (last.op = "send_beacon" /\ last.tx # <<>>) =>
           /\ Len(last.tx) = 1
           /\ last.tx[1].type = BEACON
           /\ last.tx[1].dom = is_dominator
====
